---- MODULE Spec2Model ----
(***************************************************************************)
(* Balance accounting of src/balance_utils.py: deduct_balance_by_tokens    *)
(* (normal, partner_only and dual billing), increase_balance, the          *)
(* insufficient-balance handling and the strategy resolver, as a state     *)
(* machine over the User, PartnerMonthlyEntitlement, AIUsageDetails and    *)
(* SystemNotify tables.                                                    *)
(*                                                                         *)
(* Every awaited store operation is one atomic step; the code that runs    *)
(* between two awaits belongs to the step of the await that precedes it.   *)
(* The three reads of _get_billing_strategy (superior row, group           *)
(* membership, entitlement) are taken as one snapshot of the store.        *)
(* A call works on the caller's in-memory models.User, loaded from the     *)
(* store before the call and possibly stale when the call runs.            *)
(* Store operations that can fail here: the AIUsageDetails writes, the     *)
(* SystemNotify writes, the alert_engine calls and the compensating        *)
(* credit of dual billing.                                                 *)
(***************************************************************************)
EXTENDS Integers, Sequences, FiniteSets, Bags, TLC

\* ------------------------------------------------------------- bounds
MaxBal == 2
MaxTime == 1
MaxFaults == 1

\* ---------------------------------------------------------- constants
TokensPerCredit == 1000

\* The two concurrent callers (workers) of the race specification.
Procs == {1, 2}
\* u is a user that may have a superior; p is the account u's superior_id
\* can point to.  "x" is a primary key with no User row.
Users == {"u", "p"}
NoUser == "none"
SuperiorIds == {NoUser, "p", "x"}

\* cost_multiplier as a fraction <<numerator, denominator>>.
AllMultipliers == {<<-1, 1>>, <<0, 1>>, <<1, 2>>, <<1, 1>>, <<2, 1>>}
AllTokens == {-1, 0, 1, 1001}
RaceMultipliers == {<<1, 1>>, <<2, 1>>}
RaceTokens == {0, 1000, 1001}
SeqMultipliers == {<<1, 1>>}
SeqTokens == {1000, 1001}
\* The amounts of increase_balance.
Amounts == {0, 1}
AllAmounts == {-1, 0, 1}

VARIABLES
    surplus,        \* User.surplus_number of each row of the User table
    superior,       \* User.superior_id of each row
    partnerGroup,   \* the users in the partner group (groups.filter(name=...))
    entitlements,   \* the rows of PartnerMonthlyEntitlement
    now,            \* timezone.now()
    usage,          \* the rows of AIUsageDetails, a bag
    notify,         \* the rows of SystemNotify, a bag
    alerts,         \* the calls of alert_engine.check_and_trigger, a bag
    call,           \* per caller: the in-memory objects and position
    faults,         \* store operations that have failed so far
    initial,        \* history: the balances at the start
    debited,        \* history: sum of the decrements the calls committed
    credited        \* history: sum of the credits the calls committed

vars == <<surplus, superior, partnerGroup, entitlements, now, usage, notify,
          alerts, call, faults, initial, debited, credited>>

store == <<surplus, superior, partnerGroup, entitlements, now>>
history == <<initial, debited, credited>>

\* ------------------------------------------------------ pure functions

\* math.ceil(a / b) for b > 0.
Ceil(a, b) == -((-a) \div b)

\* base_cost = math.ceil(tokens / 1000) if tokens > 0 else 0
BaseCost(tokens) == IF tokens > 0 THEN Ceil(tokens, TokensPerCredit) ELSE 0

\* token_cost = math.ceil(base_cost * cost_multiplier)
TokenCost(tokens, mult) == Ceil(BaseCost(tokens) * mult[1], mult[2])

\* HasEntitlement with end_at__gte in place of end_at__gt.
HasEntitlementClosed(user, partner) ==
    \E e \in entitlements :
        /\ e.user = user
        /\ e.partner = partner
        /\ e.is_active
        /\ e.start_at <= now
        /\ e.end_at >= now

\* HasEntitlement without the is_active filter.
HasEntitlementAnyRow(user, partner) ==
    \E e \in entitlements :
        /\ e.user = user
        /\ e.partner = partner
        /\ e.start_at <= now
        /\ e.end_at > now

\* PartnerMonthlyEntitlement.objects.filter(user=, partner=, is_active=True,
\*     start_at__lte=now, end_at__gt=now).aexists()
HasEntitlement(user, partner) ==
    \E e \in entitlements :
        /\ e.user = user
        /\ e.partner = partner
        /\ e.is_active
        /\ e.start_at <= now
        /\ e.end_at > now

\* _get_billing_strategy(user), on the in-memory user.superior_id.
GetBillingStrategy(user, superior_id) ==
    LET normal == [is_partner_subordinate |-> FALSE, partner_user |-> NoUser,
                   billing_mode |-> "normal"]
    IN  IF superior_id # NoUser
        THEN IF superior_id \in Users
             THEN IF superior_id \in partnerGroup
                  THEN [is_partner_subordinate |-> TRUE,
                        partner_user |-> superior_id,
                        billing_mode |->
                            IF HasEntitlement(user, superior_id)
                            THEN "partner_only" ELSE "dual"]
                  ELSE normal
             ELSE normal
        ELSE normal

\* RowsMatched without the surplus_number__gte condition.
RowsMatchedUnguarded(acct, cost) == 1

\* User.objects.filter(pk=, surplus_number__gte=cost).aupdate(...): the rows
\* the filter matches.
RowsMatched(acct, cost) == IF surplus[acct] >= cost THEN 1 ELSE 0

\* ... .aupdate(surplus_number=F('surplus_number') - cost)
Decremented(acct, cost) == [surplus EXCEPT ![acct] = @ - cost]

\* ... .aupdate(surplus_number=F('surplus_number') + amount)
Incremented(acct, amount) == [surplus EXCEPT ![acct] = @ + amount]

\* ------------------------------------------------------------ records

UsageRow(user, consumer, use_number, surplus_, use_type, by) ==
    [user |-> user, consumer |-> consumer, use_number |-> use_number,
     surplus |-> surplus_, use_type |-> use_type, by |-> by]

\* objects.acreate / asave of a new row.
Insert(table, row) == table (+) SetToBag({row})

Idle ==
    [pc |-> "idle", op |-> "none", user |-> NoUser, mem |-> 0,
     memSup |-> NoUser, tokens |-> 0, mult |-> <<1, 1>>, cost |-> 0,
     mode |-> "none", partner |-> NoUser, pmem |-> 0,
     checkMode |-> "none", success |-> FALSE, status |-> "none",
     remaining |-> 0, deducted |-> 0,
     \* history of the call: the stored balances when it began, its net
     \* change and its update attempts per account, the rows whose
     \* conditional update matched nothing, the steps that failed, the costs
     \* its checks and updates used, its committed mutations per account
     start |-> [a \in Users |-> 0],
     delta |-> [a \in Users |-> 0],
     tries |-> [a \in Users |-> 0],
     zeroRows |-> {}, sponsorDebited |-> FALSE, compFailed |-> FALSE,
     faulted |-> FALSE, wrote |-> 0, mem0 |-> 0, wronged |-> FALSE,
     failed |-> {}, checkCosts |-> {}, muts |-> [a \in Users |-> 0],
     \* the balance each account had right after the call's mutation of it
     post |-> [a \in Users |-> 0],
     \* the last check_balance_sufficient of the caller: its quantity, its
     \* answer and the store it ran on
     asked |-> [done |-> FALSE, tokens |-> 0, sufficient |-> FALSE,
                surplus |-> [a \in Users |-> 0], env |-> <<>>]]

InCall(r) == r.pc \notin {"idle", "loaded", "done"}

\* A step of caller c to record r.
Step(c, r) == call' = [call EXCEPT ![c] = r]

CanFail == faults < MaxFaults

\* --------------------------------------------------------------- Init

\* The rows u can have: windows [start_at, end_at) of any activation.
EntitlementRows ==
    {e \in [user : {"u"}, partner : {"p"}, is_active : BOOLEAN,
            start_at : 0..MaxTime, end_at : 1..(MaxTime + 1)] :
        e.start_at < e.end_at}

InitCommon ==
    /\ now = 0
    /\ usage = EmptyBag
    /\ notify = EmptyBag
    /\ alerts = EmptyBag
    /\ call = [c \in Procs |-> Idle]
    /\ faults = 0
    /\ initial = surplus
    /\ debited = [a \in Users |-> 0]
    /\ credited = [a \in Users |-> 0]

\* The race specification: u is a subordinate of partner p, with an
\* entitlement that runs out at time 1.
Init ==
    /\ surplus \in [Users -> 0..MaxBal]
    /\ superior = [a \in Users |-> IF a = "u" THEN "p" ELSE NoUser]
    /\ partnerGroup = {"p"}
    /\ entitlements = {[user |-> "u", partner |-> "p", is_active |-> TRUE,
                         start_at |-> 0, end_at |-> 1]}
    /\ InitCommon

\* ----------------------------------------------------- the caller's load

\* The caller fetches the models.User it will pass to the engine.
\* The callers are interchangeable: they load in the order of their numbers.
LoadUser(c, a) ==
    /\ call[c].pc = "idle"
    /\ \A d \in Procs : d < c => call[d].pc # "idle"
    /\ Step(c, [call[c] EXCEPT !.pc = "loaded", !.user = a,
                               !.mem = surplus[a], !.memSup = superior[a]])
    /\ UNCHANGED <<store, usage, notify, alerts, faults, history>>

\* ------------------------------------------- deduct_balance_by_tokens

\* PartnerPreCheck that looks at the partner's balance in either mode.
PartnerPreCheckLax(billing_mode, partner_balance, user_balance, token_cost) ==
    ~(partner_balance < token_cost)

\* _execute_partner_billing, step 1: the balance check on the in-memory
\* objects.  TRUE when the check passes.
PartnerPreCheck(billing_mode, partner_balance, user_balance, token_cost) ==
    IF billing_mode = "partner_only"
    THEN ~(partner_balance < token_cost)
    ELSE ~(partner_balance < token_cost \/ user_balance < token_cost)

\* StartDeduct without the return for a cost of 0.
StartDeductNoZero(c, tokens, mult) ==
    LET r == call[c]
        token_cost == TokenCost(tokens, mult)
        strategy == GetBillingStrategy(r.user, r.memSup)
        partner_user == strategy.partner_user
        begun == [r EXCEPT !.op = "deduct", !.tokens = tokens,
                           !.mult = mult, !.cost = token_cost,
                           !.start = surplus, !.mem0 = r.mem]
    IN  /\ r.pc = "loaded"
        /\ IF strategy.is_partner_subordinate
           THEN LET resolved == [begun EXCEPT
                                   !.mode = strategy.billing_mode,
                                   !.partner = partner_user,
                                   !.pmem = surplus[partner_user],
                                   !.checkCosts = {token_cost}]
                IN  IF PartnerPreCheck(strategy.billing_mode,
                                       surplus[partner_user], r.mem, token_cost)
                    THEN Step(c, [resolved EXCEPT !.pc = "partner_update"])
                    ELSE Step(c, [resolved EXCEPT
                                    !.pc = "notify_user",
                                    !.status = "insufficient_balance",
                                    !.wronged =
                                        /\ strategy.billing_mode = "dual"
                                        /\ r.mem < token_cost
                                        /\ surplus[r.user] >= token_cost])
           ELSE Step(c, [begun EXCEPT !.mode = "normal", !.pc = "check"])
        /\ UNCHANGED <<store, usage, notify, alerts, faults, history>>

\* deduct_balance_by_tokens up to its first store write: the cost, the
\* zero-cost return, the strategy, and for a partner's subordinate the
\* balance check of _execute_partner_billing.
StartDeduct(c, tokens, mult) ==
    LET r == call[c]
        token_cost == TokenCost(tokens, mult)
        strategy == GetBillingStrategy(r.user, r.memSup)
        partner_user == strategy.partner_user
        begun == [r EXCEPT !.op = "deduct", !.tokens = tokens,
                           !.mult = mult, !.cost = token_cost,
                           !.start = surplus, !.mem0 = r.mem]
    IN  /\ r.pc = "loaded"
        /\ IF token_cost = 0
           THEN Step(c, [begun EXCEPT !.pc = "done", !.success = TRUE,
                                      !.status = "success", !.deducted = 0,
                                      !.remaining = r.mem])
           ELSE IF strategy.is_partner_subordinate
           THEN LET resolved == [begun EXCEPT
                                   !.mode = strategy.billing_mode,
                                   !.partner = partner_user,
                                   !.pmem = surplus[partner_user],
                                   !.checkCosts = {token_cost}]
                IN  IF PartnerPreCheck(strategy.billing_mode,
                                       surplus[partner_user], r.mem, token_cost)
                    THEN Step(c, [resolved EXCEPT !.pc = "partner_update"])
                    ELSE Step(c, [resolved EXCEPT
                                    !.pc = "notify_user",
                                    !.status = "insufficient_balance",
                                    !.wronged =
                                        /\ strategy.billing_mode = "dual"
                                        /\ r.mem < token_cost
                                        /\ surplus[r.user] >= token_cost])
           ELSE Step(c, [begun EXCEPT !.mode = "normal", !.pc = "check"])
        /\ UNCHANGED <<store, usage, notify, alerts, faults, history>>

\* ---------------------------------------------- _execute_normal_billing

\* check_and_handle_insufficient_balance up to its first store write: the
\* cost without the multiplier, the strategy resolved again, the balance
\* check on the in-memory objects.
CheckAndHandle(c) ==
    LET token_cost == BaseCost(call[c].tokens)
        r == [call[c] EXCEPT !.checkCosts = @ \cup {token_cost}]
        billing_strategy == GetBillingStrategy(r.user, r.memSup)
        partner_user == billing_strategy.partner_user
    IN  /\ r.pc = "check"
        /\ IF /\ billing_strategy.is_partner_subordinate
              /\ billing_strategy.billing_mode = "partner_only"
              /\ partner_user # NoUser
           THEN IF surplus[partner_user] >= token_cost
                THEN Step(c, [r EXCEPT !.pc = "normal_update",
                                       !.checkMode = "partner_only"])
                ELSE Step(c, [r EXCEPT !.pc = "notify_user",
                                       !.checkMode = "partner_only",
                                       !.partner = partner_user,
                                       !.status = "insufficient_balance",
                                       !.wronged =
                                           surplus[partner_user] >= r.cost])
           ELSE IF r.mem >= token_cost
                THEN Step(c, [r EXCEPT !.pc = "normal_update",
                                       !.checkMode = "normal"])
                ELSE Step(c, [r EXCEPT
                                !.pc = IF r.mem > 0 THEN "remainder_record"
                                       ELSE "zero_save",
                                !.checkMode = "normal",
                                !.wronged = surplus[r.user] >= r.cost])
        /\ UNCHANGED <<store, usage, notify, alerts, faults, history>>

\* _handle_insufficient_balance_internal, step 1: the usage row for what is
\* left, written before the balance is cleared.  A failed write ends the
\* handling with status "error"; **detail_info puts that status in the
\* result of _execute_normal_billing.
RemainderRecord(c) ==
    LET r == call[c]
    IN  /\ r.pc = "remainder_record"
        /\ \/ /\ usage' = Insert(usage, UsageRow(r.user, r.user, r.mem, 0,
                                                 "debit", c))
              /\ Step(c, [r EXCEPT !.pc = "zero_save", !.wrote = @ + 1])
              /\ UNCHANGED faults
           \/ /\ CanFail
              /\ faults' = faults + 1
              /\ Step(c, [r EXCEPT !.pc = "done", !.success = FALSE,
                                   !.status = "error", !.faulted = TRUE,
                                   !.failed = @ \cup {r.pc},
                                   !.remaining = r.mem])
              /\ UNCHANGED usage
        /\ UNCHANGED <<store, notify, alerts, history>>

\* _handle_insufficient_balance_internal, step 2: user.surplus_number = 0
\* and user.asave(), which writes the in-memory row over the stored one.
ZeroSave(c) ==
    LET r == call[c]
    IN  /\ r.pc = "zero_save"
        /\ surplus' = [surplus EXCEPT ![r.user] = 0]
        /\ superior' = [superior EXCEPT ![r.user] = r.memSup]
        /\ debited' = [debited EXCEPT ![r.user] = @ + r.mem]
        /\ Step(c, [r EXCEPT !.pc = "notify_insufficient", !.mem = 0,
                             !.delta[r.user] = @ - surplus[r.user],
                             !.muts[r.user] =
                                 IF surplus[r.user] # 0 THEN @ + 1 ELSE @,
                             !.post[r.user] = 0,
                             !.wronged = @ \/ surplus[r.user] >= r.cost])
        /\ UNCHANGED <<partnerGroup, entitlements, now, usage, notify,
                       alerts, faults, initial, credited>>

\* _handle_insufficient_balance_internal, step 4: the SystemNotify row,
\* then the return through check_and_handle_insufficient_balance and
\* _execute_normal_billing.
NotifyInsufficient(c) ==
    LET r == call[c]
    IN  /\ r.pc = "notify_insufficient"
        /\ \/ /\ notify' = Insert(notify, [user |-> r.user, by |-> c])
              /\ Step(c, [r EXCEPT !.pc = "done", !.success = FALSE,
                                   !.status = "success",
                                   !.remaining = r.mem])
              /\ UNCHANGED faults
           \/ /\ CanFail
              /\ faults' = faults + 1
              /\ Step(c, [r EXCEPT !.pc = "done", !.success = FALSE,
                                   !.status = "error", !.faulted = TRUE,
                                   !.failed = @ \cup {r.pc},
                                   !.remaining = r.mem])
              /\ UNCHANGED notify
        /\ UNCHANGED <<store, usage, alerts, history>>

\* _execute_normal_billing, step 3: the conditional update of the user's
\* row by the multiplied cost.
NormalUpdate(c) ==
    LET r == call[c]
    IN  /\ r.pc = "normal_update"
        /\ IF RowsMatched(r.user, r.cost) = 0
           THEN /\ Step(c, [r EXCEPT !.pc = "done", !.success = FALSE,
                                     !.status = "concurrent_conflict",
                                     !.tries[r.user] = @ + 1,
                                     !.checkCosts = @ \cup {r.cost},
                                     !.zeroRows = @ \cup {r.user}])
                /\ UNCHANGED <<surplus, debited>>
           ELSE /\ surplus' = Decremented(r.user, r.cost)
                /\ debited' = [debited EXCEPT ![r.user] = @ + r.cost]
                /\ Step(c, [r EXCEPT !.pc = "normal_refresh",
                                     !.tries[r.user] = @ + 1,
                                     !.checkCosts = @ \cup {r.cost},
                                     !.muts[r.user] = @ + 1,
                                     !.post[r.user] = surplus[r.user] - r.cost,
                                     !.delta[r.user] = @ - r.cost])
        /\ UNCHANGED <<superior, partnerGroup, entitlements, now, usage,
                       notify, alerts, faults, initial, credited>>

\* _execute_normal_billing, step 4: user.arefresh_from_db.
NormalRefresh(c) ==
    LET r == call[c]
    IN  /\ r.pc = "normal_refresh"
        /\ Step(c, [r EXCEPT !.pc = "normal_record",
                             !.mem = surplus[r.user]])
        /\ UNCHANGED <<store, usage, notify, alerts, faults, history>>

\* _execute_normal_billing, step 5: the AIUsageDetails row.  A failed write
\* raises into deduct_balance_by_tokens, which returns status "error".
NormalRecord(c) ==
    LET r == call[c]
    IN  /\ r.pc = "normal_record"
        /\ \/ /\ usage' = Insert(usage, UsageRow(r.user, r.user, r.cost,
                                                 r.mem, "debit", c))
              /\ Step(c, [r EXCEPT !.pc = "normal_alert", !.wrote = @ + 1])
              /\ UNCHANGED faults
           \/ /\ CanFail
              /\ faults' = faults + 1
              /\ Step(c, [r EXCEPT !.pc = "done", !.success = FALSE,
                                   !.status = "error", !.faulted = TRUE,
                                   !.failed = @ \cup {r.pc}])
              /\ UNCHANGED usage
        /\ UNCHANGED <<store, notify, alerts, history>>

\* _execute_normal_billing, step 6.5 and the return: the alert check, whose
\* failure is swallowed.
NormalAlert(c) ==
    LET r == call[c]
        done == [r EXCEPT !.pc = "done", !.success = TRUE,
                          !.status = "success", !.deducted = r.cost,
                          !.remaining = r.mem]
    IN  /\ r.pc = "normal_alert"
        /\ \/ /\ alerts' = Insert(alerts, [user |-> r.user, value |-> r.mem,
                                           by |-> c])
              /\ Step(c, done)
              /\ UNCHANGED faults
           \/ /\ CanFail
              /\ faults' = faults + 1
              /\ Step(c, [done EXCEPT !.faulted = TRUE,
                                   !.failed = @ \cup {r.pc}])
              /\ UNCHANGED alerts
        /\ UNCHANGED <<store, usage, notify, history>>

\* --------------------------------------------- _execute_partner_billing

\* PartnerUpdate that, in dual billing, goes on to the user's update when
\* the partner's row did not match.
PartnerUpdateThenUser(c) ==
    LET r == call[c]
    IN  /\ r.pc = "partner_update"
        /\ IF RowsMatched(r.partner, r.cost) = 0
           THEN /\ Step(c, [r EXCEPT !.pc = IF r.mode = "dual"
                                            THEN "user_update"
                                            ELSE "notify_user",
                                     !.status = "concurrent_conflict",
                                     !.tries[r.partner] = @ + 1,
                                     !.zeroRows = @ \cup {r.partner}])
                /\ UNCHANGED <<surplus, debited>>
           ELSE /\ surplus' = Decremented(r.partner, r.cost)
                /\ debited' = [debited EXCEPT ![r.partner] = @ + r.cost]
                /\ Step(c, [r EXCEPT !.pc = "partner_refresh",
                                     !.tries[r.partner] = @ + 1,
                                     !.sponsorDebited = TRUE,
                                     !.delta[r.partner] = @ - r.cost])
        /\ UNCHANGED <<superior, partnerGroup, entitlements, now, usage,
                       notify, alerts, faults, initial, credited>>

\* PartnerUpdate that does not look at the number of rows updated.
PartnerUpdateUnchecked(c) ==
    LET r == call[c]
        matched == RowsMatched(r.partner, r.cost) = 1
    IN  /\ r.pc = "partner_update"
        /\ surplus' = IF matched THEN Decremented(r.partner, r.cost)
                      ELSE surplus
        /\ debited' = IF matched
                      THEN [debited EXCEPT ![r.partner] = @ + r.cost]
                      ELSE debited
        /\ Step(c, [r EXCEPT !.pc = "partner_refresh",
                             !.tries[r.partner] = @ + 1,
                             !.sponsorDebited = matched,
                             !.zeroRows = IF matched THEN @
                                          ELSE @ \cup {r.partner},
                             !.delta[r.partner] =
                                 IF matched THEN @ - r.cost ELSE @])
        /\ UNCHANGED <<superior, partnerGroup, entitlements, now, usage,
                       notify, alerts, faults, initial, credited>>

\* Step 2, first update: the conditional decrement of the partner's row.
\* Zero rows is a concurrent_conflict, handled by the caller as a rejection.
PartnerUpdate(c) ==
    LET r == call[c]
    IN  /\ r.pc = "partner_update"
        /\ IF RowsMatched(r.partner, r.cost) = 0
           THEN /\ Step(c, [r EXCEPT !.pc = "notify_user",
                                     !.status = "concurrent_conflict",
                                     !.tries[r.partner] = @ + 1,
                                     !.checkCosts = @ \cup {r.cost},
                                     !.zeroRows = @ \cup {r.partner}])
                /\ UNCHANGED <<surplus, debited>>
           ELSE /\ surplus' = Decremented(r.partner, r.cost)
                /\ debited' = [debited EXCEPT ![r.partner] = @ + r.cost]
                /\ Step(c, [r EXCEPT !.pc = "partner_refresh",
                                     !.tries[r.partner] = @ + 1,
                                     !.checkCosts = @ \cup {r.cost},
                                     !.sponsorDebited = TRUE,
                                     !.muts[r.partner] = @ + 1,
                                     !.post[r.partner] = surplus[r.partner] - r.cost,
                                     !.delta[r.partner] = @ - r.cost])
        /\ UNCHANGED <<superior, partnerGroup, entitlements, now, usage,
                       notify, alerts, faults, initial, credited>>

\* PartnerRefresh that goes on to the user's update in either mode.
PartnerRefreshAsDual(c) ==
    LET r == call[c]
    IN  /\ r.pc = "partner_refresh"
        /\ Step(c, [r EXCEPT !.pc = "user_update",
                             !.pmem = surplus[r.partner]])
        /\ UNCHANGED <<store, usage, notify, alerts, faults, history>>

\* partner_user.arefresh_from_db.
PartnerRefresh(c) ==
    LET r == call[c]
    IN  /\ r.pc = "partner_refresh"
        /\ Step(c, [r EXCEPT !.pc = IF r.mode = "dual" THEN "user_update"
                                    ELSE "partner_record",
                             !.pmem = surplus[r.partner]])
        /\ UNCHANGED <<store, usage, notify, alerts, faults, history>>

\* Dual billing, second update: the conditional decrement of the user's row.
UserUpdate(c) ==
    LET r == call[c]
    IN  /\ r.pc = "user_update"
        /\ IF RowsMatched(r.user, r.cost) = 0
           THEN /\ Step(c, [r EXCEPT !.pc = "rollback",
                                     !.tries[r.user] = @ + 1,
                                     !.checkCosts = @ \cup {r.cost},
                                     !.zeroRows = @ \cup {r.user}])
                /\ UNCHANGED <<surplus, debited>>
           ELSE /\ surplus' = Decremented(r.user, r.cost)
                /\ debited' = [debited EXCEPT ![r.user] = @ + r.cost]
                /\ Step(c, [r EXCEPT !.pc = "user_refresh",
                                     !.tries[r.user] = @ + 1,
                                     !.checkCosts = @ \cup {r.cost},
                                     !.muts[r.user] = @ + 1,
                                     !.post[r.user] = surplus[r.user] - r.cost,
                                     !.delta[r.user] = @ - r.cost])
        /\ UNCHANGED <<superior, partnerGroup, entitlements, now, usage,
                       notify, alerts, faults, initial, credited>>

\* Rollback without the credit: the conflict is returned at once.
RollbackForgotten(c) ==
    LET r == call[c]
    IN  /\ r.pc = "rollback"
        /\ Step(c, [r EXCEPT !.pc = "notify_user",
                             !.status = "concurrent_conflict"])
        /\ UNCHANGED <<store, usage, notify, alerts, faults, history>>

\* Dual billing, the user's update matched no row: the partner is credited
\* back, unconditionally.  If that update raises, the except clause of
\* _execute_partner_billing returns status "error".
Rollback(c) ==
    LET r == call[c]
    IN  /\ r.pc = "rollback"
        /\ \/ /\ surplus' = Incremented(r.partner, r.cost)
              /\ credited' = [credited EXCEPT ![r.partner] = @ + r.cost]
              /\ Step(c, [r EXCEPT !.pc = "notify_user",
                                   !.status = "concurrent_conflict",
                                   !.muts[r.partner] = @ + 1,
                                   !.post[r.partner] = surplus[r.partner] + r.cost,
                                   !.delta[r.partner] = @ + r.cost])
              /\ UNCHANGED faults
           \/ /\ CanFail
              /\ faults' = faults + 1
              /\ Step(c, [r EXCEPT !.pc = "notify_user",
                                   !.status = "error", !.faulted = TRUE,
                                   !.failed = @ \cup {r.pc},
                                   !.compFailed = TRUE])
              /\ UNCHANGED <<surplus, credited>>
        /\ UNCHANGED <<superior, partnerGroup, entitlements, now, usage,
                       notify, alerts, initial, debited>>

\* user.arefresh_from_db.
UserRefresh(c) ==
    LET r == call[c]
    IN  /\ r.pc = "user_refresh"
        /\ Step(c, [r EXCEPT !.pc = "partner_record",
                             !.mem = surplus[r.user]])
        /\ UNCHANGED <<store, usage, notify, alerts, faults, history>>

\* Step 3: the AIUsageDetails row of the partner.  A failed write is caught
\* by the except clause: status "error", handled by the caller as a
\* rejection.
PartnerRecord(c) ==
    LET r == call[c]
    IN  /\ r.pc = "partner_record"
        /\ \/ /\ usage' = Insert(usage, UsageRow(r.partner, r.user, r.cost,
                                                 r.pmem, "debit", c))
              /\ Step(c, [r EXCEPT !.pc = IF r.mode = "dual"
                                          THEN "user_record"
                                          ELSE "alert_user",
                                   !.wrote = @ + 1])
              /\ UNCHANGED faults
           \/ /\ CanFail
              /\ faults' = faults + 1
              /\ Step(c, [r EXCEPT !.pc = "notify_user", !.status = "error",
                                   !.faulted = TRUE,
                                   !.failed = @ \cup {r.pc}])
              /\ UNCHANGED usage
        /\ UNCHANGED <<store, notify, alerts, history>>

\* Step 3, dual billing: the AIUsageDetails row of the user.
UserRecord(c) ==
    LET r == call[c]
    IN  /\ r.pc = "user_record"
        /\ \/ /\ usage' = Insert(usage, UsageRow(r.user, r.user, r.cost,
                                                 r.mem, "debit", c))
              /\ Step(c, [r EXCEPT !.pc = "alert_user", !.wrote = @ + 1])
              /\ UNCHANGED faults
           \/ /\ CanFail
              /\ faults' = faults + 1
              /\ Step(c, [r EXCEPT !.pc = "notify_user", !.status = "error",
                                   !.faulted = TRUE,
                                   !.failed = @ \cup {r.pc}])
              /\ UNCHANGED usage
        /\ UNCHANGED <<store, notify, alerts, history>>

\* _handle_partner_insufficient_balance, first row: the user's notification.
\* If the write raises, the partner's row is skipped.  Reached for every
\* unsuccessful result of _execute_partner_billing, and from
\* check_and_handle_insufficient_balance.
NotifyUser(c) ==
    LET r == call[c]
    IN  /\ r.pc = "notify_user"
        /\ \/ /\ notify' = Insert(notify, [user |-> r.user, by |-> c])
              /\ Step(c, [r EXCEPT !.pc = "notify_partner"])
              /\ UNCHANGED faults
           \/ /\ CanFail
              /\ faults' = faults + 1
              /\ Step(c, [r EXCEPT !.pc = "done", !.success = FALSE,
                                   !.faulted = TRUE,
                                   !.failed = @ \cup {r.pc}, !.remaining = r.mem])
              /\ UNCHANGED notify
        /\ UNCHANGED <<store, usage, alerts, history>>

\* _handle_partner_insufficient_balance, second row: the partner's
\* notification, then the return of deduct_balance_by_tokens.
NotifyPartner(c) ==
    LET r == call[c]
        done == [r EXCEPT !.pc = "done", !.success = FALSE,
                          !.remaining = r.mem]
    IN  /\ r.pc = "notify_partner"
        /\ \/ /\ notify' = Insert(notify, [user |-> r.partner, by |-> c])
              /\ Step(c, done)
              /\ UNCHANGED faults
           \/ /\ CanFail
              /\ faults' = faults + 1
              /\ Step(c, [done EXCEPT !.faulted = TRUE,
                                   !.failed = @ \cup {r.pc}])
              /\ UNCHANGED notify
        /\ UNCHANGED <<store, usage, alerts, history>>

\* _trigger_balance_alerts, first check: the user's balance.  If the check
\* raises, the partner's check is skipped.
AlertUser(c) ==
    LET r == call[c]
        result == [r EXCEPT !.success = TRUE, !.status = "success",
                            !.deducted = r.cost, !.remaining = r.mem]
    IN  /\ r.pc = "alert_user"
        /\ \/ /\ alerts' = Insert(alerts, [user |-> r.user, value |-> r.mem,
                                           by |-> c])
              /\ Step(c, [result EXCEPT !.pc = "alert_partner"])
              /\ UNCHANGED faults
           \/ /\ CanFail
              /\ faults' = faults + 1
              /\ Step(c, [result EXCEPT !.pc = "done", !.faulted = TRUE,
                                   !.failed = @ \cup {r.pc}])
              /\ UNCHANGED alerts
        /\ UNCHANGED <<store, usage, notify, history>>

\* _trigger_balance_alerts, second check: the partner's balance.
AlertPartner(c) ==
    LET r == call[c]
    IN  /\ r.pc = "alert_partner"
        /\ \/ /\ alerts' = Insert(alerts, [user |-> r.partner,
                                           value |-> r.pmem, by |-> c])
              /\ Step(c, [r EXCEPT !.pc = "done"])
              /\ UNCHANGED faults
           \/ /\ CanFail
              /\ faults' = faults + 1
              /\ Step(c, [r EXCEPT !.pc = "done", !.faulted = TRUE,
                                   !.failed = @ \cup {r.pc}])
              /\ UNCHANGED alerts
        /\ UNCHANGED <<store, usage, notify, history>>

\* ----------------------------------------------------- increase_balance

\* StartCredit without the amount check.
StartCreditUnchecked(c, amount) ==
    LET r == call[c]
        begun == [r EXCEPT !.op = "credit", !.cost = amount,
                           !.start = surplus, !.mem0 = r.mem]
    IN  /\ r.pc = "loaded"
        /\ surplus' = Incremented(r.user, amount)
        /\ credited' = [credited EXCEPT ![r.user] = @ + amount]
        /\ Step(c, [begun EXCEPT !.pc = "credit_refresh",
                                 !.muts[r.user] = @ + 1,
                                 !.delta[r.user] = @ + amount])
        /\ UNCHANGED <<superior, partnerGroup, entitlements, now, usage,
                       notify, alerts, faults, initial, debited>>

\* The amount check and the unconditional increment.
StartCredit(c, amount) ==
    LET r == call[c]
        begun == [r EXCEPT !.op = "credit", !.cost = amount,
                           !.start = surplus, !.mem0 = r.mem]
    IN  /\ r.pc = "loaded"
        /\ IF amount <= 0
           THEN /\ Step(c, [begun EXCEPT !.pc = "done", !.success = FALSE,
                                         !.status = "error"])
                /\ UNCHANGED <<surplus, credited>>
           ELSE /\ surplus' = Incremented(r.user, amount)
                /\ credited' = [credited EXCEPT ![r.user] = @ + amount]
                /\ Step(c, [begun EXCEPT !.pc = "credit_refresh",
                                         !.muts[r.user] = @ + 1,
                                         !.post[r.user] = surplus[r.user] + amount,
                                         !.delta[r.user] = @ + amount])
        /\ UNCHANGED <<superior, partnerGroup, entitlements, now, usage,
                       notify, alerts, faults, initial, debited>>

\* user.arefresh_from_db.
CreditRefresh(c) ==
    LET r == call[c]
    IN  /\ r.pc = "credit_refresh"
        /\ Step(c, [r EXCEPT !.pc = "credit_record",
                             !.mem = surplus[r.user]])
        /\ UNCHANGED <<store, usage, notify, alerts, faults, history>>

\* The AIUsageDetails row of the credit.  A failed write is caught by the
\* except clause: (False, status "error").
CreditRecord(c) ==
    LET r == call[c]
    IN  /\ r.pc = "credit_record"
        /\ \/ /\ usage' = Insert(usage, UsageRow(r.user, r.user, r.cost,
                                                 r.mem, "credit", c))
              /\ Step(c, [r EXCEPT !.pc = "done", !.success = TRUE,
                                   !.status = "success",
                                   !.remaining = r.mem, !.wrote = @ + 1])
              /\ UNCHANGED faults
           \/ /\ CanFail
              /\ faults' = faults + 1
              /\ Step(c, [r EXCEPT !.pc = "done", !.success = FALSE,
                                   !.status = "error", !.faulted = TRUE,
                                   !.failed = @ \cup {r.pc}])
              /\ UNCHANGED usage
        /\ UNCHANGED <<store, notify, alerts, history>>

\* ------------------------------------------- check_balance_sufficient

\* check_balance_sufficient(user, tokens): the cost without a multiplier,
\* the strategy, and the comparison of the partner's stored balance and
\* the in-memory user's balance with the cost.
BalanceSufficient(user, mem, superior_id, tokens) ==
    LET token_cost == BaseCost(tokens)
        billing_strategy == GetBillingStrategy(user, superior_id)
        partner_user == billing_strategy.partner_user
    IN  IF token_cost = 0 THEN TRUE
        ELSE IF billing_strategy.is_partner_subordinate
        THEN IF partner_user = NoUser THEN mem >= token_cost
             ELSE IF billing_strategy.billing_mode = "partner_only"
             THEN surplus[partner_user] >= token_cost
             ELSE surplus[partner_user] >= token_cost /\ mem >= token_cost
        ELSE mem >= token_cost

\* A caller asks check_balance_sufficient before its call; nothing is
\* written.
CheckSufficient(c, tokens) ==
    LET r == call[c]
    IN  /\ r.pc = "loaded"
        /\ ~r.asked.done
        /\ Step(c, [r EXCEPT !.asked =
                        [done |-> TRUE, tokens |-> tokens,
                         sufficient |-> BalanceSufficient(r.user, r.mem,
                                                          r.memSup, tokens),
                         surplus |-> surplus,
                         env |-> <<superior, partnerGroup, entitlements,
                                   now>>]])
        /\ UNCHANGED <<store, usage, notify, alerts, faults, history>>

\* --------------------------------------------------- the environment

\* Time passes: entitlement windows open and close.
Tick ==
    /\ now < MaxTime
    /\ now' = now + 1
    /\ UNCHANGED <<surplus, superior, partnerGroup, entitlements, usage,
                   notify, alerts, call, faults, history>>

\* An administrator deactivates an entitlement row.
Deactivate ==
    /\ \E e \in entitlements :
          /\ e.is_active
          /\ entitlements' = (entitlements \ {e})
                                 \cup {[e EXCEPT !.is_active = FALSE]}
    /\ UNCHANGED <<surplus, superior, partnerGroup, now, usage, notify,
                   alerts, call, faults, history>>

\* An account with a User row is added to the partner group.
JoinGroup ==
    /\ \E a \in Users \ partnerGroup :
          /\ \E b \in Users : superior[b] = a
          /\ partnerGroup' = partnerGroup \cup {a}
    /\ UNCHANGED <<surplus, superior, entitlements, now, usage, notify,
                   alerts, call, faults, history>>

\* ------------------------------------------------------ specifications

\* The steps of a call in progress, but for the compensating credit.
Engine(c) ==
    \/ CheckAndHandle(c)
    \/ RemainderRecord(c)
    \/ ZeroSave(c)
    \/ NotifyInsufficient(c)
    \/ NormalUpdate(c)
    \/ NormalRefresh(c)
    \/ NormalRecord(c)
    \/ NormalAlert(c)
    \/ PartnerUpdate(c)
    \/ PartnerRefresh(c)
    \/ UserUpdate(c)
    \/ UserRefresh(c)
    \/ PartnerRecord(c)
    \/ UserRecord(c)
    \/ NotifyUser(c)
    \/ NotifyPartner(c)
    \/ AlertUser(c)
    \/ AlertPartner(c)
    \/ CreditRefresh(c)
    \/ CreditRecord(c)

Next ==
    \/ \E c \in Procs :
        \/ \E a \in Users : LoadUser(c, a)
        \/ \E t \in RaceTokens, m \in RaceMultipliers : StartDeduct(c, t, m)
        \/ \E n \in Amounts : StartCredit(c, n)
        \/ Engine(c)
        \/ Rollback(c)
    \/ Tick

Spec == Init /\ [][Next]_vars

\* One caller at a time, over every hierarchy, entitlement table, usage
\* quantity, multiplier and credit amount of the bounds.  The caller's copy is never stale
\* and no other call runs, so the user's update of dual billing always
\* matches after a passed check: there is no Rollback step to take.
InitSolo ==
    /\ surplus \in [Users -> 0..MaxBal]
    /\ superior \in {[a \in Users |-> IF a = "u" THEN s ELSE NoUser] :
                        s \in SuperiorIds}
    /\ partnerGroup \in SUBSET {"p"}
    /\ entitlements \in {{}} \cup {{e} : e \in EntitlementRows}
    /\ InitCommon

Quiet == \A d \in Procs : ~InCall(call[d])

NextSolo ==
    \/ \E c \in {1} :
        \/ \E a \in Users : LoadUser(c, a)
        \/ \E t \in AllTokens, m \in AllMultipliers : StartDeduct(c, t, m)
        \/ \E n \in AllAmounts : StartCredit(c, n)
        \/ Engine(c)
    \/ Quiet /\ Tick

SpecSolo == InitSolo /\ [][NextSolo]_vars

\* Calls on account u that run one after the other, in the callers'
\* order.  A caller may hold a models.User it loaded before the earlier
\* call, and may ask check_balance_sufficient for the quantity it is about
\* to deduct; the entitlement and the partner group change at any moment,
\* also while a call is in progress.  No store operation fails.
InitSeq ==
    /\ surplus \in [Users -> 0..MaxBal]
    /\ superior = [a \in Users |-> IF a = "u" THEN "p" ELSE NoUser]
    /\ partnerGroup \in SUBSET {"p"}
    /\ entitlements = {[user |-> "u", partner |-> "p", is_active |-> TRUE,
                         start_at |-> 0, end_at |-> 1]}
    /\ now = 0
    /\ usage = EmptyBag
    /\ notify = EmptyBag
    /\ alerts = EmptyBag
    /\ call = [c \in Procs |-> Idle]
    /\ faults = MaxFaults
    /\ initial = surplus
    /\ debited = [a \in Users |-> 0]
    /\ credited = [a \in Users |-> 0]

SeqTurn(c) == \A d \in Procs : d < c => call[d].pc = "done"

SeqQuantity(c, tokens) == call[c].asked.done => tokens = call[c].asked.tokens

DeductEngine(c) ==
    \/ CheckAndHandle(c)
    \/ RemainderRecord(c)
    \/ ZeroSave(c)
    \/ NotifyInsufficient(c)
    \/ NormalUpdate(c)
    \/ NormalRefresh(c)
    \/ NormalRecord(c)
    \/ NormalAlert(c)
    \/ PartnerUpdate(c)
    \/ PartnerRefresh(c)
    \/ UserUpdate(c)
    \/ UserRefresh(c)
    \/ PartnerRecord(c)
    \/ UserRecord(c)
    \/ NotifyUser(c)
    \/ NotifyPartner(c)
    \/ AlertUser(c)
    \/ AlertPartner(c)
    \/ Rollback(c)

NextSeq ==
    \/ \E c \in Procs :
        \/ LoadUser(c, "u")
        \/ SeqTurn(c) /\ \E t \in SeqTokens : CheckSufficient(c, t)
        \/ \E t \in SeqTokens, m \in SeqMultipliers :
              SeqTurn(c) /\ SeqQuantity(c, t) /\ StartDeduct(c, t, m)
        \/ DeductEngine(c)
    \/ Tick
    \/ Deactivate
    \/ JoinGroup

SpecSeq == InitSeq /\ [][NextSeq]_vars

\* Three callers that deduct for u, the subordinate of partner p: the
\* first call runs alone, the other two race after it.  Each caller holds
\* the models.User it loaded, possibly before the first call, so that a
\* dual call
\* can debit the sponsor, miss the user's row and credit the sponsor back
\* while a third call looks at the sponsor's balance.  The entitlement of u
\* starts at time 1: calls before it are dual, calls after it are billed to
\* the sponsor alone.  No store operation fails.
Trio == {1, 2, 3}

TrioTokens == {1000}

InitTrio ==
    /\ surplus \in [Users -> 0..MaxBal]
    /\ superior = [a \in Users |-> IF a = "u" THEN "p" ELSE NoUser]
    /\ partnerGroup = {"p"}
    /\ entitlements = {[user |-> "u", partner |-> "p", is_active |-> TRUE,
                         start_at |-> 1, end_at |-> 2]}
    /\ now = 0
    /\ usage = EmptyBag
    /\ notify = EmptyBag
    /\ alerts = EmptyBag
    /\ call = [c \in Trio |-> Idle]
    /\ faults = MaxFaults
    /\ initial = surplus
    /\ debited = [a \in Users |-> 0]
    /\ credited = [a \in Users |-> 0]

TrioTurn(c) == c = 1 \/ call[1].pc = "done"

PartnerEngine(c) ==
    \/ PartnerUpdate(c)
    \/ PartnerRefresh(c)
    \/ UserUpdate(c)
    \/ UserRefresh(c)
    \/ Rollback(c)
    \/ PartnerRecord(c)
    \/ UserRecord(c)
    \/ NotifyUser(c)
    \/ NotifyPartner(c)
    \/ AlertUser(c)
    \/ AlertPartner(c)

NextTrio ==
    \/ \E c \in Trio :
        \/ LoadUser(c, "u")
        \/ \E t \in TrioTokens, m \in SeqMultipliers :
              TrioTurn(c) /\ StartDeduct(c, t, m)
        \/ PartnerEngine(c)
    \/ Tick

SpecTrio == InitTrio /\ [][NextTrio]_vars

\* ============================================================== claims

Returned(r) == r.pc = "done"

\* The ledger part of a partner call is over: only notifications, alerts
\* and the return remain.
Settled(r) ==
    r.pc \in {"notify_user", "notify_partner", "alert_user", "alert_partner",
              "done"}

\* C1: once all calls have returned, for every account the final balance
\* plus the sum of the committed decrements equals the initial balance plus
\* the sum of the committed credits.
C1_Conservation ==
    Quiet => \A a \in Users :
                surplus[a] + debited[a] = initial[a] + credited[a]

\* C2: in every reachable state every account's stored balance is >= 0.
C2_NonNegative == \A a \in Users : surplus[a] >= 0

\* Two calls raced on an account: one decremented it to 0, the other's
\* conditional decrement matched no row.
C2_Witness ==
    \E c, d \in Procs, a \in Users :
        /\ c # d
        /\ call[c].delta[a] < 0
        /\ a \in call[d].zeroRows
        /\ surplus[a] = 0

C4_PreCheckNeverDecides == \A c \in Procs : ~call[c].wronged

\* The usage rows a caller has written.
RowsBy(c) == {row \in BagToSet(usage) : row.by = c}

\* C5: a normal call on a fresh copy, running alone with no failed store
\* operation and a positive multiplier, on a balance >= cost: it commits,
\* the new balance is the old one minus cost, and that is the remaining
\* balance reported.
C5_NormalCommit ==
    \A c \in Procs :
        LET r == call[c]
        IN  (/\ Returned(r) /\ r.op = "deduct" /\ r.mode = "normal"
             /\ ~r.faulted /\ r.mult[1] > 0
             /\ r.start[r.user] >= r.cost) =>
                /\ r.success
                /\ surplus[r.user] = r.start[r.user] - r.cost
                /\ r.remaining = surplus[r.user]

\* C6: a normal call on a fresh copy, running alone with no failed store
\* operation, on a balance > 0 and < cost: it rejects, leaves the balance
\* at 0 and writes exactly one usage row, whose amount is the remainder.
C6_NormalInsufficient ==
    \A c \in Procs :
        LET r == call[c]
        IN  (/\ Returned(r) /\ r.op = "deduct" /\ r.mode = "normal"
             /\ ~r.faulted
             /\ 0 < r.start[r.user] /\ r.start[r.user] < r.cost) =>
                /\ ~r.success
                /\ surplus[r.user] = 0
                /\ BagCardinality(usage) = 1
                /\ \A row \in RowsBy(c) :
                       row.user = r.user /\ row.use_number = r.start[r.user]

\* C7, as stated: a deduct call one of whose conditional decrements matched
\* no row returns concurrent_conflict, has tried each account at most once,
\* has written no usage row and has not changed that account's balance.
C7_ConflictReported ==
    \A c \in Procs :
        LET r == call[c]
        IN  (Returned(r) /\ r.op = "deduct" /\ r.zeroRows # {}) =>
                /\ ~r.success
                /\ r.status = "concurrent_conflict"
                /\ \A a \in Users : r.tries[a] <= 1
                /\ r.wrote = 0
                /\ \A a \in r.zeroRows : r.delta[a] = 0

\* C7, amended: the same, but when the compensating credit of dual billing
\* fails the call returns status "error" in place of concurrent_conflict.
C7_ConflictReportedUnlessCompensationFails ==
    \A c \in Procs :
        LET r == call[c]
        IN  (Returned(r) /\ r.op = "deduct" /\ r.zeroRows # {}) =>
                /\ ~r.success
                /\ r.status = IF r.compFailed THEN "error"
                              ELSE "concurrent_conflict"
                /\ \A a \in Users : r.tries[a] <= 1
                /\ r.wrote = 0
                /\ \A a \in r.zeroRows : r.delta[a] = 0

\* A call passed its check on a fresh copy, lost the race for the balance
\* and returned concurrent_conflict.
C7_Witness ==
    \E c \in Procs :
        /\ Returned(call[c])
        /\ call[c].zeroRows # {}
        /\ call[c].status = "concurrent_conflict"
        /\ call[c].mem0 = call[c].start[call[c].user]
        /\ call[c].mult = <<1, 1>>

\* C8: a partner_only call running alone with no failed store operation
\* on a partner balance >= cost commits, changes the partner's balance by
\* -cost and the user's not at all, and writes exactly one usage row, of
\* the partner with the user as consumer.  No partner_only call ever
\* changes the user's balance.
C8_SponsorOnly ==
    \A c \in Procs :
        LET r == call[c]
        IN  /\ r.mode = "partner_only" => r.delta[r.user] = 0
            /\ (/\ Returned(r) /\ r.mode = "partner_only" /\ ~r.faulted
                /\ r.start[r.partner] >= r.cost) =>
                   /\ r.success
                   /\ surplus[r.partner] = r.start[r.partner] - r.cost
                   /\ surplus[r.user] = r.start[r.user]
                   /\ BagCardinality(usage) = 1
                   /\ \A row \in RowsBy(c) :
                          /\ row.user = r.partner
                          /\ row.consumer = r.user
                          /\ row.use_number = r.cost

\* A partner_only call of positive cost committed.
C8_Witness ==
    \E c \in Procs :
        /\ Returned(call[c])
        /\ call[c].mode = "partner_only"
        /\ call[c].success
        /\ call[c].cost > 0
        /\ surplus[call[c].partner] = call[c].start[call[c].partner] - call[c].cost
        /\ RowsBy(c) # {}

C10_Expected(a) ==
    LET sup == superior[a]
    IN  IF sup = NoUser \/ sup \notin Users \/ sup \notin partnerGroup
        THEN <<"normal", NoUser>>
        ELSE IF \E e \in entitlements :
                    /\ e.user = a /\ e.partner = sup /\ e.is_active
                    /\ e.start_at <= now /\ now < e.end_at
             THEN <<"partner_only", sup>>
             ELSE <<"dual", sup>>

\* C10: the strategy a deduct call resolves is normal without a sponsor
\* when there is no superior link, no superior row or no partner
\* membership; partner_only with the superior as payer when an active
\* entitlement has start_at <= now < end_at; dual with the superior as
\* sponsor otherwise.
C10_StrategyResolution ==
    [][\A c \in Procs :
          (/\ call[c].pc = "loaded"
           /\ call'[c].op = "deduct"
           /\ call'[c].cost # 0) =>
              <<call'[c].mode, call'[c].partner>> = C10_Expected(call[c].user)
      ]_vars

\* A call resolved partner_only on an entitlement that starts now.
C10_Witness ==
    \E c \in Procs :
        /\ call[c].pc = "partner_update"
        /\ call[c].mode = "partner_only"
        /\ \E e \in entitlements : e.start_at = now /\ e.is_active

\* The SystemNotify rows caller c has written for account a.
NotifyCount(c, a) == CopiesIn([user |-> a, by |-> c], notify)

\* C11: a dual call whose partner debit committed, whose user update
\* matched no row and whose compensating credit failed returns a failure
\* whose status is none of those returned for insufficient balance, for a
\* concurrent conflict or for another error such as a failed usage-row
\* write, differs from the status of every other rejected call, and the
\* call is not handled as a rejection: it writes no insufficient-balance
\* notification.
C11_CompensationDistinct ==
    \A c \in Procs :
        LET r == call[c]
        IN  (Returned(r) /\ r.compFailed) =>
                /\ ~r.success
                /\ r.status \notin {"insufficient_balance",
                                    "concurrent_conflict", "error"}
                /\ \A d \in Procs :
                       (/\ Returned(call[d]) /\ call[d].op = "deduct"
                        /\ ~call[d].success /\ ~call[d].compFailed) =>
                           call[d].status # r.status
                /\ \A a \in Users : NotifyCount(c, a) = 0

\* The steps that write the usage row of a committed mutation.
RecordSteps == {"normal_record", "partner_record", "user_record",
                "credit_record"}

\* C12: a call whose usage-row write failed after its balance mutation
\* committed keeps the mutation (each mutated account changed once, by the
\* amount, and nothing was undone) and returns the success outcome.
C12_RecordFailureKeepsOutcome ==
    \A c \in Procs :
        LET r == call[c]
            amount == IF r.op = "credit" THEN r.cost ELSE -r.cost
        IN  (Returned(r) /\ r.failed \cap RecordSteps # {}) =>
                /\ \A a \in Users :
                       /\ r.muts[a] <= 1
                       /\ r.delta[a] = IF r.muts[a] = 1 THEN amount ELSE 0
                /\ r.success
                /\ r.status = "success"

\* The signed amount of the usage rows of account a among rows: credits
\* minus debits, each row counted as often as the table holds it.
RECURSIVE TrailSum(_, _)
TrailSum(rows, a) ==
    IF rows = {} THEN 0
    ELSE LET row == CHOOSE x \in rows : TRUE
             signed == IF row.use_type = "credit" THEN row.use_number
                       ELSE -row.use_number
         IN  (IF row.user = a THEN CopiesIn(row, usage) * signed ELSE 0)
                 + TrailSum(rows \ {row}, a)

\* C13: when no call is in progress and no store operation has failed,
\* every account's balance is its initial balance plus the amounts of its
\* credit rows minus the amounts of its debit rows.
C13_TrailConsistent ==
    (Quiet /\ faults = 0) =>
        \A a \in Users :
            surplus[a] = initial[a] + TrailSum(BagToSet(usage), a)

\* The usage rows caller c has written for account a, as a bag.
UsageOf(c, a) ==
    [row \in {x \in BagToSet(usage) : x.by = c /\ x.user = a} |->
        CopiesIn(row, usage)]

\* C14: a call that has returned with no failed store operation has
\* written, for every account, as many usage rows as it committed
\* mutations of that account's balance (debit of the account, debit of the
\* sponsor, remainder zeroing, credit, compensating credit), and none for
\* an account it did not mutate.  (Rows are only ever inserted.)
C14_OneRowPerMutation ==
    \A c \in Procs :
        LET r == call[c]
        IN  (Returned(r) /\ r.failed = {}) =>
                \A a \in Users : BagCardinality(UsageOf(c, a)) = r.muts[a]

\* The call was rejected at its balance check: a deduct of nonzero cost
\* that never issued a conditional update.
Short(r) == r.op = "deduct" /\ r.cost # 0 /\ \A a \in Users : r.tries[a] = 0

\* C15: a deduct call of positive multiplier that has returned with no
\* failed store operation, when rejected at the balance check, has success = FALSE and status
\* insufficient_balance; when one of its conditional updates matched no
\* row, it has success = FALSE and status concurrent_conflict.
C15_RejectionsNameCause ==
    \A c \in Procs :
        LET r == call[c]
        IN  (/\ Returned(r) /\ r.op = "deduct" /\ r.failed = {}
             /\ r.mult[1] > 0) =>
                /\ Short(r) =>
                       ~r.success /\ r.status = "insufficient_balance"
                /\ r.zeroRows # {} =>
                       ~r.success /\ r.status = "concurrent_conflict"

\* The steps that write a notification or call the alert engine.
SideSteps == {"notify_insufficient", "notify_user", "notify_partner",
              "normal_alert", "alert_user", "alert_partner"}

\* Two calls with the same input that took the same course through the
\* ledger: same account, quantity, multiplier, mode, in-memory and stored
\* balances at the start, same update attempts with the same results and
\* the same balance changes.
SameBilling(r, s) ==
    /\ r.user = s.user /\ r.tokens = s.tokens /\ r.mult = s.mult
    /\ r.mode = s.mode /\ r.mem0 = s.mem0 /\ r.start = s.start
    /\ r.tries = s.tries /\ r.zeroRows = s.zeroRows /\ r.delta = s.delta

\* C16: two deduct calls that differ only in which of their notification
\* writes and alert calls failed return the same success flag and the same
\* status.  (The notification and alert steps write no balance.)
C16_SideEffectsNeverAlterOutcome ==
    \A c, d \in Procs :
        LET r == call[c]
            s == call[d]
        IN  (/\ Returned(r) /\ Returned(s)
             /\ r.op = "deduct" /\ s.op = "deduct"
             /\ r.failed \subseteq SideSteps /\ s.failed \subseteq SideSteps
             /\ SameBilling(r, s)) =>
                r.success = s.success /\ r.status = s.status

\* The accounts a deduct call of mode r.mode debits.
Payers(r) ==
    IF r.mode = "normal" THEN {r.user}
    ELSE IF r.mode = "partner_only" THEN {r.partner}
    ELSE {r.user, r.partner}

\* The deduct call committed: the conditional update of every payer
\* matched its row.
Committed(r) ==
    /\ r.op = "deduct" /\ r.cost # 0 /\ r.mode # "none"
    /\ \A a \in Payers(r) : r.tries[a] = 1 /\ a \notin r.zeroRows

NotifySteps == {"notify_insufficient", "notify_user", "notify_partner"}

\* C17: of the deduct calls of positive cost that have returned with no
\* failed notification write, one rejected in partner_only or dual mode has written one
\* notification for the user and one for the partner, and one that
\* committed, in any mode, has written no notification.
C17_NotificationsOnRejection ==
    \A c \in Procs :
        LET r == call[c]
        IN  (/\ Returned(r) /\ r.op = "deduct" /\ r.cost > 0
             /\ r.failed \cap NotifySteps = {}) =>
                /\ (/\ r.mode \in {"partner_only", "dual"}
                    /\ ~r.success /\ ~Committed(r)) =>
                       /\ NotifyCount(c, r.user) = 1
                       /\ NotifyCount(c, r.partner) = 1
                /\ Committed(r) =>
                       \A a \in Users : NotifyCount(c, a) = 0

\* The alert_engine calls caller c has made for account a, as a bag.
AlertsOf(c, a) ==
    [row \in {x \in BagToSet(alerts) : x.by = c /\ x.user = a} |->
        CopiesIn(row, alerts)]

\* C18: a deduct call of positive cost that ran alone, committed and has
\* returned with no failed store operation has called the alert hook
\* exactly once, with the new balance, for every account whose balance it
\* changed (the payer, and the sponsor in dual mode), and not at all for
\* an account whose balance it did not change.
C18_AlertOncePerChange ==
    \A c \in Procs :
        LET r == call[c]
        IN  (/\ Returned(r) /\ r.failed = {}
             /\ Committed(r) /\ r.cost > 0) =>
                \A a \in Users :
                    IF r.delta[a] # 0
                    THEN /\ BagCardinality(AlertsOf(c, a)) = 1
                         /\ \A row \in DOMAIN AlertsOf(c, a) :
                                row.value = surplus[a]
                    ELSE BagCardinality(AlertsOf(c, a)) = 0

\* C19: a credit call with amount <= 0 returns at once with a failure
\* result and leaves every balance and the usage table as they were.
C19_CreditRejectsNonPositive ==
    [][\A c \in Procs :
          (/\ call[c].pc = "loaded"
           /\ call'[c].op = "credit"
           /\ call'[c].cost <= 0) =>
              /\ call'[c].pc = "done"
              /\ ~call'[c].success
              /\ call'[c].status = "error"
              /\ surplus' = surplus
              /\ usage' = usage
      ]_vars

\* A credit of a negative amount was refused on an account that holds a
\* balance.
C19_Witness ==
    \E c \in Procs :
        /\ Returned(call[c])
        /\ call[c].op = "credit"
        /\ call[c].cost < 0
        /\ ~call[c].success
        /\ surplus[call[c].user] > 0
        /\ surplus = initial

\* ceil(a / b) for b > 0, by its definition: the least integer n with
\* n * b >= a.
C20_Ceil(a, b) ==
    LET m == IF a < 0 THEN -a ELSE a
    IN  CHOOSE n \in (-m)..m : n * b >= a /\ (n - 1) * b < a

\* The cost the claim gives for quantity u and multiplier mult.
C20_Cost(u, mult) ==
    IF u > 0
    THEN C20_Ceil(C20_Ceil(u, TokensPerCredit) * mult[1], mult[2])
    ELSE 0

\* C20: the cost of a deduct call is ceil(ceil(u / 1000) * m) when u > 0
\* and 0 when u <= 0, and every balance check and every conditional update
\* of the call uses that cost.
C20_OneCost ==
    \A c \in Procs :
        LET r == call[c]
        IN  r.op = "deduct" =>
                /\ r.cost = C20_Cost(r.tokens, r.mult)
                /\ \A k \in r.checkCosts : k = r.cost

\* m1 <= m2 for multipliers as fractions of positive denominator.
MultLeq(m1, m2) == m1[1] * m2[2] <= m2[1] * m1[2]

\* C21: the cost a deduct call computed for a quantity u >= 0 and a
\* multiplier m is <= the cost of every quantity u2 >= u at m and <= the
\* cost of u at every multiplier m2 >= m; and the cost of quantity 0 is 0.
C21_CostMonotone ==
    \A c \in Procs :
        LET r == call[c]
        IN  (r.op = "deduct" /\ r.tokens >= 0) =>
                /\ \A u2 \in AllTokens :
                       r.tokens <= u2 => r.cost <= TokenCost(u2, r.mult)
                /\ \A m2 \in AllMultipliers :
                       MultLeq(r.mult, m2) => r.cost <= TokenCost(r.tokens, m2)
                /\ r.tokens = 0 => r.cost = 0

\* C28: the cost of a deduct call is >= 0, and a deduct call that runs
\* alone never leaves an account's balance above what it was when the call
\* began.
C28_DeductNeverAdds ==
    \A c \in Procs :
        LET r == call[c]
        IN  r.op = "deduct" =>
                /\ r.cost >= 0
                /\ \A a \in Users : surplus[a] <= r.start[a]

\* C29: the step of a deduct call whose cost is 0 returns success with
\* deducted = 0 and the in-memory balance as remaining, and leaves the
\* balances, the usage rows, the notifications and the alert calls as they
\* were, whatever the hierarchy and entitlements.
C29_ZeroCostNoOp ==
    [][\A c \in Procs :
          (/\ call[c].pc = "loaded"
           /\ call'[c].op = "deduct"
           /\ call'[c].cost = 0) =>
              /\ call'[c].pc = "done"
              /\ call'[c].success
              /\ call'[c].status = "success"
              /\ call'[c].deducted = 0
              /\ call'[c].remaining = call[c].mem
              /\ UNCHANGED <<store, usage, notify, alerts>>
      ]_vars

\* A call of a negative quantity returned for a subordinate of a partner
\* and nothing was written.
C29_Witness ==
    \E c \in Procs :
        /\ Returned(call[c])
        /\ call[c].op = "deduct"
        /\ call[c].tokens < 0
        /\ call[c].cost = 0
        /\ call[c].success
        /\ call[c].deducted = 0
        /\ superior[call[c].user] \in partnerGroup
        /\ surplus = initial
        /\ usage = EmptyBag /\ notify = EmptyBag /\ alerts = EmptyBag

\* C23: in a dual call the user's conditional update is issued only after
\* the partner's, and only when the partner's matched its row; a dual call
\* whose partner update matched no row never issues the user's update and
\* leaves the user's balance as it was.
C23_DualOrdering ==
    \A c \in Procs :
        LET r == call[c]
        IN  r.mode = "dual" =>
                /\ r.tries[r.user] > 0 =>
                       /\ r.tries[r.partner] = 1
                       /\ r.partner \notin r.zeroRows
                       /\ r.sponsorDebited
                /\ r.partner \in r.zeroRows =>
                       r.tries[r.user] = 0 /\ r.delta[r.user] = 0

\* A dual call whose check passed found the partner's row short at the
\* update and returned without an update of the user's row, which could
\* have paid.
C23_Witness ==
    \E c \in Procs :
        /\ Returned(call[c])
        /\ call[c].mode = "dual"
        /\ call[c].partner \in call[c].zeroRows
        /\ call[c].tries[call[c].user] = 0
        /\ call[c].mem0 >= call[c].cost
        /\ surplus[call[c].user] >= call[c].cost

\* C24: at every moment, the usage rows a call of positive multiplier has
\* written for an account are no more than the mutations of that
\* account's balance the call has committed: no row is written before or
\* without its mutation.
C24_RecordAfterCommit ==
    \A c \in Procs :
        call[c].mult[1] > 0 =>
            \A a \in Users :
                BagCardinality(UsageOf(c, a)) <= call[c].muts[a]

\* C25: the resulting balance stored in every usage row a call has written
\* is the balance the row's account had right after the call's mutation of
\* it, and the remaining balance a successful call returns is the balance
\* the user had right after the call's mutation of it.
C25_SnapshotIsCommitBalance ==
    \A c \in Procs :
        LET r == call[c]
        IN  /\ \A row \in RowsBy(c) : row.surplus = r.post[row.user]
            /\ (Returned(r) /\ r.success /\ r.muts[r.user] > 0) =>
                   r.remaining = r.post[r.user]

\* C22: the strategy is resolved again by every call.  A deduct that
\* starts for a subordinate of a partner while no entitlement row of the
\* pair is active and inside its period (it expired, or it was deactivated,
\* also after an earlier call of the same account was billed to the sponsor
\* alone) is billed in dual mode, never to the sponsor alone.
InForce(e) == e.is_active /\ e.start_at <= now /\ now < e.end_at

C22_StrategyPerCall ==
    [][\A c \in Procs :
         (/\ call[c].pc = "loaded"
          /\ call'[c].op = "deduct"
          /\ call'[c].cost # 0
          /\ call[c].memSup \in partnerGroup
          /\ \A e \in entitlements :
                (e.user = call[c].user /\ e.partner = call[c].memSup)
                    => ~InForce(e))
         => call'[c].mode = "dual"]_vars

\* An earlier call of u was committed on the sponsor alone, the entitlement
\* then lapsed, and a later call of u was committed in dual mode.
C22_Witness ==
    /\ call[1].pc = "done" /\ call[1].user = "u"
    /\ call[1].mode = "partner_only" /\ call[1].success
    /\ call[2].pc = "done" /\ call[2].user = "u"
    /\ call[2].mode = "dual" /\ call[2].success
    /\ \A e \in entitlements : ~InForce(e)

\* C26: one strategy per call.  The strategy is resolved once at the start
\* of the call and the check before the mutation uses the same mode and the
\* same payer as the mutation, also when the entitlement or the partner
\* group changes while the call is in progress: a call billed in normal
\* mode never decides on the sponsor's balance.
C26_OneStrategyPerCall ==
    \A c \in Procs :
        (call[c].op = "deduct" /\ call[c].mode = "normal")
            => call[c].checkMode \in {"none", "normal"}

\* C30: check_balance_sufficient writes nothing, and it answers sufficient
\* exactly when the deduct of the same quantity at multiplier 1, run next
\* with nothing in between, commits.
Uninterrupted(r) ==
    /\ r.asked.done
    /\ r.asked.tokens = r.tokens
    /\ r.asked.surplus = r.start
    /\ r.asked.env = <<superior, partnerGroup, entitlements, now>>

C30_CheckAgreesWithDeduct ==
    \A c \in Procs :
        LET r == call[c]
        IN  (r.pc = "done" /\ r.op = "deduct" /\ r.mult = <<1, 1>>
                /\ Uninterrupted(r))
                => (r.asked.sufficient <=> r.success)

\* C27: a sponsor debit that is credited back is not visible to other
\* calls.  No call billed to the sponsor (alone or in dual mode) is rejected,
\* as insufficient by its check or as a conflict by its sponsor update,
\* at a moment when another dual call has debited the sponsor, has missed
\* the user's row and is about to credit the sponsor back, if the sponsor's
\* balance with that debit restored covers the call's cost and nothing else
\* stands in the call's way.
AwaitsCreditBack(d) ==
    /\ call[d].pc = "rollback"
    /\ call[d].mode = "dual"
    /\ call[d].sponsorDebited
    /\ ~CanFail

RejectedOnSponsor(v) ==
    LET r == call'[v]
    IN  /\ r.op = "deduct"
        /\ r.mode \in {"partner_only", "dual"}
        /\ surplus[r.partner] < r.cost
        /\ \/ /\ call[v].pc = "loaded"
              /\ r.status = "insufficient_balance"
              /\ r.mode = "dual" => call[v].mem >= r.cost
           \/ /\ call[v].pc = "partner_update"
              /\ r.status = "concurrent_conflict"
        /\ r.mode = "dual" => surplus[r.user] >= r.cost

C27_CompensatedDebitInvisible ==
    [][\A v \in DOMAIN call :
         RejectedOnSponsor(v)
            => ~\E d \in DOMAIN call \ {v} :
                   /\ AwaitsCreditBack(d)
                   /\ call[d].partner = call'[v].partner
                   /\ surplus[call[d].partner] + call[d].cost
                          >= call'[v].cost]_vars

====
